---- MODULE Spec2Model ----
(***************************************************************************)
(* zk-mini: arithmetic circuits lowered to an R1CS with a QAP accumulator, *)
(* witness generation, witness verification and the binary persistence of  *)
(* the constraint system and of the proof.                                 *)
(*                                                                         *)
(* Rust indices are 0-based; a Vec is a TLA+ sequence, so the element at   *)
(* Rust index i is seq[i + 1].  A HashMap is a set of <<key, value>> pairs *)
(* with at most one pair per key.  A call that panics returns Panic.       *)
(***************************************************************************)
EXTENDS Integers, Sequences, FiniteSets, TLC

VARIABLES
    poly,       \* a Polynomial
    fed,        \* history: the (index, coefficient) pairs handed to add_term on poly
    r1cs,       \* an R1CS
    calls,      \* history: the number of add_constraint calls on r1cs
    bin,        \* the file r1cs is saved to and loaded from
    circ,       \* the Circuit instances
    r1csFile,   \* the file "r1cs_file.bin"
    proofFile,  \* the proof files, by path
    fstat,      \* history: what last happened to each file
    lastGen,    \* history: the last generate_proof that wrote its files
    ret         \* the last call and what it returned

vars == <<poly, fed, r1cs, calls, bin, circ, r1csFile, proofFile, fstat, lastGen, ret>>

(***************************************************************************)
(* Bounds of the model.                                                    *)
(***************************************************************************)
MaxTerms == 3        \* add_term calls on one Polynomial
MaxVars == 2         \* variables added to one R1CS through add_variable
MaxConstraintCalls == 1   \* add_constraint calls on one R1CS
MaxInputs == 3       \* inputs of one Circuit
MaxGates == 1        \* gates of one Circuit
MaxOutputs == 1      \* outputs of one Circuit

Indices == {0, 1, 2} \* variable indices handed to add_term
Coeffs == {1, 2}     \* coefficients handed to add_term
Values == {0, 1}     \* values of inputs and variables
\* slices of (index, coefficient) handed to add_constraint
LeftLists == {<<>>, <<<<0, 1>>>>, <<<<1, 2>>, <<1, 2>>>>, <<<<0, 1>>, <<1, 1>>>>}
RightLists == {<<>>, <<<<1, 1>>>>}
OutputLists == {<<>>, <<<<0, 1>>>>}
AlterValues == {0, 1, 2}     \* values written over a witness entry of a proof file
Circuits == {1, 2}           \* the Circuit instances
Paths == {"a.bin", "b.bin"}  \* proof file paths
R1csPath == "r1cs_file.bin"

(***************************************************************************)
(* field.rs (not in the sources): FieldElement, reduced modulo the default *)
(* modulus.                                                                *)
(***************************************************************************)
Modulus == 1000000007

FieldNew(raw) == raw % Modulus
FieldAdd(a, b) == (a + b) % Modulus
FieldMul(a, b) == (a * b) % Modulus
FieldSub(a, b) == (a - b) % Modulus
FieldZero == FieldNew(0)
FieldOne == FieldNew(1)

\* a function with domain 1..n, as the sequence it is
AsSeq(f) == SubSeq(f, 1, Len(f))

Panic == [ok |-> FALSE, val |-> "panic"]
Ok(v) == [ok |-> TRUE, val |-> v]

(***************************************************************************)
(* HashMap<usize, FieldElement>                                            *)
(***************************************************************************)
Keys(m) == {e[1] : e \in m}
Get(m, k) == (CHOOSE e \in m : e[1] = k)[2]
Insert(m, k, v) == {e \in m : e[1] # k} \cup {<<k, v>>}
\* *map.entry(k).or_insert(zero) += v
EntryAddAssign(m, k, v) ==
    LET cur == IF k \in Keys(m) THEN Get(m, k) ELSE FieldZero
    IN  Insert(m, k, FieldAdd(cur, v))

(***************************************************************************)
(* qap.rs: Polynomial                                                      *)
(***************************************************************************)
Polynomial_new == {}

add_term(p, index, coefficient) == Insert(p, index, coefficient)

RECURSIVE SumTerms(_, _)
SumTerms(p, assignment) ==
    IF p = {} THEN FieldZero
    ELSE LET e == CHOOSE x \in p : TRUE
         IN  FieldAdd(SumTerms(p \ {e}, assignment),
                      FieldMul(e[2], assignment[e[1] + 1]))

\* assignment[*index] panics when index >= assignment.len()
Polynomial_evaluate(p, assignment) ==
    IF \E e \in p : e[1] >= Len(assignment)
    THEN Panic
    ELSE Ok(SumTerms(p, assignment))

(***************************************************************************)
(* qap.rs: QAP                                                             *)
(***************************************************************************)
QAP_new == [left |-> Polynomial_new, right |-> Polynomial_new, output |-> Polynomial_new]

\* one for-loop of QAP::add_constraint: coeffs is a slice of (index, coeff)
RECURSIVE Accumulate(_, _)
Accumulate(p, coeffs) ==
    IF coeffs = <<>> THEN p
    ELSE Accumulate(EntryAddAssign(p, Head(coeffs)[1], Head(coeffs)[2]), Tail(coeffs))

QAP_add_constraint(q, left_coeffs, right_coeffs, output_coeffs) ==
    [left |-> Accumulate(q.left, left_coeffs),
     right |-> Accumulate(q.right, right_coeffs),
     output |-> Accumulate(q.output, output_coeffs)]

QAP_evaluate(q, assignment) ==
    LET l == Polynomial_evaluate(q.left, assignment)
        r == Polynomial_evaluate(q.right, assignment)
        o == Polynomial_evaluate(q.output, assignment)
    IN  IF l.ok /\ r.ok /\ o.ok
        THEN Ok(FieldSub(FieldMul(l.val, r.val), o.val))
        ELSE Panic

(***************************************************************************)
(* r1cs.rs: R1CS                                                           *)
(***************************************************************************)
Operations == <<"Add", "Mul", "Hash">>    \* enum Operation, in declaration order

R1CS_new == [variables |-> <<>>, constraints |-> <<>>, qap |-> QAP_new]

\* What add_constraint would push if it kept Constraint records: every term
\* resolved to the Variable of that index.
ResolveTerms(r, coeffs) ==
    AsSeq([k \in 1..Len(coeffs) |->
        <<[index |-> coeffs[k][1],
           value |-> IF coeffs[k][1] < Len(r.variables)
                     THEN r.variables[coeffs[k][1] + 1].value ELSE FieldZero],
          coeffs[k][2]>>])

R1CS_add_constraint_storing(r, left_coeffs, right_coeffs, output_coeffs) ==
    [r EXCEPT !.qap = QAP_add_constraint(r.qap, left_coeffs, right_coeffs, output_coeffs),
              !.constraints = Append(r.constraints,
                  [left |-> ResolveTerms(r, left_coeffs),
                   right |-> ResolveTerms(r, right_coeffs),
                   output |-> ResolveTerms(r, output_coeffs),
                   operation |-> "Add"])]

\* Only the QAP is updated; self.constraints is left as it is.
R1CS_add_constraint(r, left_coeffs, right_coeffs, output_coeffs) ==
    [r EXCEPT !.qap = QAP_add_constraint(r.qap, left_coeffs, right_coeffs, output_coeffs)]

generate_witness(r) == AsSeq([k \in 1..Len(r.variables) |-> r.variables[k].value])

evaluate_qap(r) == QAP_evaluate(r.qap, generate_witness(r))

add_variable_one_based(r, value) ==
    [r1cs |-> [r EXCEPT !.variables =
                   Append(r.variables, [index |-> Len(r.variables) + 1, value |-> value])],
     index |-> Len(r.variables) + 1]

add_variable(r, value) ==
    [r1cs |-> [r EXCEPT !.variables =
                   Append(r.variables, [index |-> Len(r.variables), value |-> value])],
     index |-> Len(r.variables)]

\* one side of one constraint: the sum of witness[var.index] * coeff
RECURSIVE SideEval(_, _)
SideEval(side, witness) ==
    IF side = <<>> THEN FieldZero
    ELSE FieldAdd(SideEval(Tail(side), witness),
                  FieldMul(witness[Head(side)[1].index + 1], FieldNew(Head(side)[2])))

SideInRange(side, witness) ==
    \A k \in 1..Len(side) : side[k][1].index < Len(witness)

RECURSIVE VerifyFrom(_, _)
VerifyFrom(constraints, witness) ==
    IF constraints = <<>> THEN Ok(TRUE)
    ELSE LET c == Head(constraints)
         IN  IF ~(SideInRange(c.left, witness) /\ SideInRange(c.right, witness)
                  /\ SideInRange(c.output, witness))
             THEN Panic
             ELSE IF SideEval(c.left, witness) # SideEval(c.right, witness)
                     \/ SideEval(c.right, witness) # SideEval(c.output, witness)
                  THEN Ok(FALSE)
                  ELSE VerifyFrom(Tail(constraints), witness)

verify_witness(r, witness) == VerifyFrom(r.constraints, witness)

(***************************************************************************)
(* bincode: a value is written as a sequence of words.  A usize, a u32     *)
(* enum tag, a BigInt and a FieldElement are one word each; a Vec or a     *)
(* HashMap is its length followed by its elements; a struct or a tuple is  *)
(* its fields in declaration order.  Reading fails at the end of the input *)
(* and at an unknown enum tag; words after the value are ignored.          *)
(***************************************************************************)
RECURSIVE Flatten(_)
Flatten(seqs) == IF seqs = <<>> THEN <<>> ELSE Head(seqs) \o Flatten(Tail(seqs))

OpTag(op) == (CHOOSE k \in 1..Len(Operations) : Operations[k] = op) - 1

EncVariable(v) == <<v.index, v.value>>
EncVariables(vs) == <<Len(vs)>> \o Flatten([k \in 1..Len(vs) |-> EncVariable(vs[k])])
EncSide(side) ==
    <<Len(side)>> \o Flatten([k \in 1..Len(side) |-> EncVariable(side[k][1]) \o <<side[k][2]>>])
EncConstraint(c) ==
    EncSide(c.left) \o EncSide(c.right) \o EncSide(c.output) \o <<OpTag(c.operation)>>
EncConstraints(cs) == <<Len(cs)>> \o Flatten([k \in 1..Len(cs) |-> EncConstraint(cs[k])])

\* The iteration orders of a HashMap: every arrangement of its entries.
Orders(m) ==
    {o \in [1..Cardinality(m) -> m] : \A i, j \in 1..Cardinality(m) : i # j => o[i] # o[j]}
EncMap(order) == <<Len(order)>> \o Flatten([k \in 1..Len(order) |-> <<order[k][1], order[k][2]>>])

\* The serializations of an R1CS, one per iteration order of its three maps.
Serialize(r) ==
    {EncVariables(r.variables) \o EncConstraints(r.constraints)
        \o EncMap(ol) \o EncMap(or) \o EncMap(oo) :
        ol \in Orders(r.qap.left), or \in Orders(r.qap.right), oo \in Orders(r.qap.output)}

\* A reader's state: [ok, val, rest]
Fail == [ok |-> FALSE, val |-> <<>>, rest |-> <<>>]
Read(v, rest) == [ok |-> TRUE, val |-> v, rest |-> rest]
Drop(bytes, n) == SubSeq(bytes, n + 1, Len(bytes))

RECURSIVE DecVariablesN(_, _, _)
DecVariablesN(n, acc, bytes) ==
    IF n = 0 THEN Read(acc, bytes)
    ELSE IF Len(bytes) < 2 THEN Fail
    ELSE DecVariablesN(n - 1, Append(acc, [index |-> bytes[1], value |-> bytes[2]]),
                       Drop(bytes, 2))

DecVariables(bytes) ==
    IF Len(bytes) < 1 THEN Fail ELSE DecVariablesN(bytes[1], <<>>, Tail(bytes))

RECURSIVE DecSideN(_, _, _)
DecSideN(n, acc, bytes) ==
    IF n = 0 THEN Read(acc, bytes)
    ELSE IF Len(bytes) < 3 THEN Fail
    ELSE DecSideN(n - 1,
                  Append(acc, <<[index |-> bytes[1], value |-> bytes[2]], bytes[3]>>),
                  Drop(bytes, 3))

DecSide(bytes) ==
    IF Len(bytes) < 1 THEN Fail ELSE DecSideN(bytes[1], <<>>, Tail(bytes))

DecConstraint(bytes) ==
    LET l == DecSide(bytes)
        r == DecSide(l.rest)
        o == DecSide(r.rest)
    IN  IF ~l.ok THEN Fail
        ELSE IF ~r.ok THEN Fail
        ELSE IF ~o.ok THEN Fail
        ELSE IF Len(o.rest) < 1 THEN Fail
        ELSE IF o.rest[1] \notin 0..(Len(Operations) - 1) THEN Fail
        ELSE Read([left |-> l.val, right |-> r.val, output |-> o.val,
                   operation |-> Operations[o.rest[1] + 1]], Tail(o.rest))

RECURSIVE DecConstraintsN(_, _, _)
DecConstraintsN(n, acc, bytes) ==
    IF n = 0 THEN Read(acc, bytes)
    ELSE LET c == DecConstraint(bytes)
         IN  IF ~c.ok THEN Fail
             ELSE DecConstraintsN(n - 1, Append(acc, c.val), c.rest)

DecConstraints(bytes) ==
    IF Len(bytes) < 1 THEN Fail ELSE DecConstraintsN(bytes[1], <<>>, Tail(bytes))

\* HashMap entries are inserted as they are read: a repeated key keeps the last value.
RECURSIVE DecMapN(_, _, _)
DecMapN(n, acc, bytes) ==
    IF n = 0 THEN Read(acc, bytes)
    ELSE IF Len(bytes) < 2 THEN Fail
    ELSE DecMapN(n - 1, Insert(acc, bytes[1], bytes[2]), Drop(bytes, 2))

DecMap(bytes) ==
    IF Len(bytes) < 1 THEN Fail ELSE DecMapN(bytes[1], {}, Tail(bytes))

Deserialize(bytes) ==
    LET vs == DecVariables(bytes)
        cs == DecConstraints(vs.rest)
        l == DecMap(cs.rest)
        r == DecMap(l.rest)
        o == DecMap(r.rest)
    IN  IF ~vs.ok THEN Fail
        ELSE IF ~cs.ok THEN Fail
        ELSE IF ~l.ok THEN Fail
        ELSE IF ~r.ok THEN Fail
        ELSE IF ~o.ok THEN Fail
        ELSE Read([variables |-> vs.val, constraints |-> cs.val,
                   qap |-> [left |-> l.val, right |-> r.val, output |-> o.val]], o.rest)

\* A file: whether it exists, and the words it holds.
Missing == [exists |-> FALSE, bytes |-> <<>>]
File(bytes) == [exists |-> TRUE, bytes |-> bytes]

\* R1CS::save_to_binary: the contents the file can have afterwards
save_to_binary(r) == {File(b) : b \in Serialize(r)}

load_from_binary_skip_qap(file) ==
    IF ~file.exists THEN Panic
    ELSE LET d == Deserialize(file.bytes)
         IN  IF d.ok THEN Ok([d.val EXCEPT !.qap = QAP_new]) ELSE Panic

\* R1CS::load_from_binary: File::open(..).expect, deserialize_from(..).expect
load_from_binary(file) ==
    IF ~file.exists THEN Panic
    ELSE LET d == Deserialize(file.bytes)
         IN  IF d.ok THEN Ok(d.val) ELSE Panic

(***************************************************************************)
(* proof.rs (not in the sources): Proof, the witness as raw integers, and  *)
(* its bincode form.                                                       *)
(***************************************************************************)
Proof_generate_proof(r, witness) == witness

Proof_save_to_binary(proof) == File(<<Len(proof)>> \o proof)

RECURSIVE DecIntsN(_, _, _)
DecIntsN(n, acc, bytes) ==
    IF n = 0 THEN Read(acc, bytes)
    ELSE IF Len(bytes) < 1 THEN Fail
    ELSE DecIntsN(n - 1, Append(acc, bytes[1]), Tail(bytes))

Proof_deserialize(bytes) ==
    IF Len(bytes) < 1 THEN Fail ELSE DecIntsN(bytes[1], <<>>, Tail(bytes))

(***************************************************************************)
(* circuit.rs: Circuit                                                     *)
(***************************************************************************)
Gate(op, a, b, output) == <<op, a, b, output>>
Circuit_new == [inputs |-> <<>>, gates |-> <<>>, outputs |-> <<>>]

add_input(self, value) ==
    [circuit |-> [self EXCEPT !.inputs = Append(self.inputs, value)],
     index |-> Len(self.inputs)]

add_gate(self, gate) == [self EXCEPT !.gates = Append(self.gates, gate)]

set_output(self, value) == [self EXCEPT !.outputs = Append(self.outputs, value)]

\* for input in &self.inputs { r1cs.add_variable(input.clone()); }
RECURSIVE AddVariables(_, _)
AddVariables(r, inputs) ==
    IF inputs = <<>> THEN r
    ELSE AddVariables(add_variable(r, Head(inputs)).r1cs, Tail(inputs))

\* for gate in &self.gates: both arms make the same add_constraint call;
\* r1cs.variables[*a] panics on an index that is out of range.
RECURSIVE LowerGates(_, _)
LowerGates(r, gates) ==
    IF gates = <<>> THEN Ok(r)
    ELSE LET a == Head(gates)[2]
             b == Head(gates)[3]
             output == Head(gates)[4]
             n == Len(r.variables)
         IN  IF a >= n \/ b >= n \/ output >= n THEN Panic
             ELSE LowerGates(
                    R1CS_add_constraint(r,
                        <<<<r.variables[a + 1].index, FieldOne>>>>,
                        <<<<r.variables[b + 1].index, FieldOne>>>>,
                        <<<<r.variables[output + 1].index, FieldOne>>>>),
                    Tail(gates))

Lower(self) == LowerGates(AddVariables(R1CS_new, self.inputs), self.gates)

\* What a generate_proof call does: <<"panic", _, _>> with nothing written, or
\* <<"ok", the r1cs file, the proof file>>.
NothingWritten == <<"panic", Missing, Missing>>

LowerAndSave(self) ==
    LET low == Lower(self)
    IN  IF ~low.ok THEN {NothingWritten}
        ELSE {<<"ok", f,
                Proof_save_to_binary(Proof_generate_proof(low.val, generate_witness(low.val)))>> :
                f \in save_to_binary(low.val)}

Circuit_generate_proof_unguarded(self) == LowerAndSave(self)

Circuit_generate_proof(self) ==
    IF self.inputs = <<>> THEN {NothingWritten} ELSE LowerAndSave(self)

\* the witness of a proof file, each value through FieldElement::new
RECURSIVE ToField(_)
ToField(raw) ==
    IF raw = <<>> THEN <<>> ELSE <<FieldNew(Head(raw))>> \o ToField(Tail(raw))

LoadWitness(proof_file) ==
    IF ~proof_file.exists THEN Panic
    ELSE LET proof == Proof_deserialize(proof_file.bytes)
         IN  IF proof.ok THEN Ok(ToField(proof.val)) ELSE Panic

verify_proof_missing_is_false(self, proof_file, r1cs_file) ==
    LET witness == LoadWitness(proof_file)
        r == load_from_binary(r1cs_file)
    IN  IF ~witness.ok \/ ~r.ok THEN Ok(FALSE)
        ELSE verify_witness(r.val, witness.val)

verify_proof_against_self(self, proof_file, r1cs_file) ==
    LET witness == LoadWitness(proof_file)
        r == Lower(self)
    IN  IF ~witness.ok THEN Panic
        ELSE IF self.inputs = <<>> \/ ~r.ok THEN Panic
        ELSE verify_witness(r.val, witness.val)

verify_proof(self, proof_file, r1cs_file) ==
    LET witness == LoadWitness(proof_file)
        r == load_from_binary(r1cs_file)
    IN  IF ~witness.ok THEN Panic
        ELSE IF ~r.ok THEN Panic
        ELSE verify_witness(r.val, witness.val)

(***************************************************************************)
(* Calls and their results                                                 *)
(***************************************************************************)
Call(op, arg, out, val) == <<op, arg, out, val>>
OpOf(call) == call[1]
ArgOf(call) == call[2]
OutOf(call) == call[3]
ValOf(call) == call[4]
Returned(op, arg, res) ==
    IF res.ok THEN Call(op, arg, "ok", res.val) ELSE Call(op, arg, "panic", <<>>)
BoolOut(res) == IF ~res.ok THEN "panic" ELSE IF res.val THEN "true" ELSE "false"

\* assignment vectors: every sequence of values of length 0..n
Vectors(n) == {AsSeq(f) : f \in UNION {[1..k -> Values] : k \in 0..n}}

\* witnesses handed to verification: w itself, w with one entry changed, and
\* the proper prefixes of w
Candidates(w) ==
    {w} \cup {AsSeq([w EXCEPT ![k] = v]) : k \in 1..Len(w), v \in Values}
        \cup {SubSeq(w, 1, n) : n \in 0..(Len(w) - 1)}

(***************************************************************************)
(* A Polynomial under add_term and evaluate                                *)
(***************************************************************************)
PolyFixed ==
    /\ poly = Polynomial_new
    /\ fed = <<>>

R1csFixed ==
    /\ r1cs = R1CS_new
    /\ calls = 0
    /\ bin = Missing

NoGen == <<0, "", <<>>, <<>>>>

CircuitFixed ==
    /\ circ = [c \in Circuits |-> Circuit_new]
    /\ r1csFile = Missing
    /\ proofFile = [p \in Paths |-> Missing]
    /\ fstat = [f \in Paths \cup {R1csPath} |-> "absent"]
    /\ lastGen = NoGen

InitPoly ==
    /\ PolyFixed
    /\ R1csFixed
    /\ CircuitFixed
    /\ ret = Call("new", <<>>, "ok", <<>>)

PolyAddTerm(index, coefficient) ==
    /\ Len(fed) < MaxTerms
    /\ poly' = add_term(poly, index, coefficient)
    /\ fed' = Append(fed, <<index, coefficient>>)
    /\ ret' = Call("add_term", <<index, coefficient>>, "ok", <<>>)
    /\ UNCHANGED <<r1cs, calls, bin, circ, r1csFile, proofFile, fstat, lastGen>>

PolyEvaluate(assignment) ==
    /\ ret' = Returned("evaluate", assignment, Polynomial_evaluate(poly, assignment))
    /\ UNCHANGED <<poly, fed, r1cs, calls, bin, circ, r1csFile, proofFile, fstat, lastGen>>

NextPoly ==
    \/ \E index \in Indices, coefficient \in Coeffs : PolyAddTerm(index, coefficient)
    \/ \E assignment \in Vectors(Cardinality(Indices)) : PolyEvaluate(assignment)

SpecPoly == InitPoly /\ [][NextPoly]_vars

\* the field sum of the coefficients handed to add_term for one index
RECURSIVE Supplied(_, _)
Supplied(history, index) ==
    IF history = <<>> THEN FieldZero
    ELSE FieldAdd(Supplied(Tail(history), index),
                  IF Head(history)[1] = index THEN Head(history)[2] ELSE FieldZero)

\* C5: after any sequence of add_term calls the polynomial holds one entry per
\* index handed to it, and the coefficient at each index is the field sum of all
\* the coefficients handed in for that index.
C5_AddTermAccumulates ==
    /\ Cardinality(Keys(poly)) = Cardinality(poly)
    /\ Keys(poly) = {fed[k][1] : k \in 1..Len(fed)}
    /\ \A index \in Keys(poly) : Get(poly, index) = Supplied(fed, index)

(***************************************************************************)
(* An R1CS under its own operations                                        *)
(***************************************************************************)
InitR1cs ==
    /\ PolyFixed
    /\ R1csFixed
    /\ CircuitFixed
    /\ ret = Call("new", <<>>, "ok", <<>>)

R1csAddVariable(value) ==
    /\ Len(r1cs.variables) < MaxVars
    /\ r1cs' = add_variable(r1cs, value).r1cs
    /\ ret' = Call("add_variable", value, "ok", add_variable(r1cs, value).index)
    /\ UNCHANGED <<poly, fed, calls, bin, circ, r1csFile, proofFile, fstat, lastGen>>

R1csAddConstraint(left_coeffs, right_coeffs, output_coeffs) ==
    /\ calls < MaxConstraintCalls
    /\ r1cs' = R1CS_add_constraint(r1cs, left_coeffs, right_coeffs, output_coeffs)
    /\ calls' = calls + 1
    /\ ret' = Call("add_constraint", <<>>, "ok", <<>>)
    /\ UNCHANGED <<poly, fed, bin, circ, r1csFile, proofFile, fstat, lastGen>>

R1csGenerateWitness ==
    /\ ret' = Call("generate_witness", <<>>, "ok", generate_witness(r1cs))
    /\ UNCHANGED <<poly, fed, r1cs, calls, bin, circ, r1csFile, proofFile, fstat, lastGen>>

R1csEvaluateQap ==
    /\ ret' = Returned("evaluate_qap", <<>>, evaluate_qap(r1cs))
    /\ UNCHANGED <<poly, fed, r1cs, calls, bin, circ, r1csFile, proofFile, fstat, lastGen>>

R1csVerifyWitness(witness) ==
    /\ ret' = Call("verify_witness", witness, BoolOut(verify_witness(r1cs, witness)), <<>>)
    /\ UNCHANGED <<poly, fed, r1cs, calls, bin, circ, r1csFile, proofFile, fstat, lastGen>>

R1csSave ==
    /\ bin' \in save_to_binary(r1cs)
    /\ ret' = Call("save_to_binary", <<>>, "ok", <<>>)
    /\ UNCHANGED <<poly, fed, r1cs, calls, circ, r1csFile, proofFile, fstat, lastGen>>

R1csLoad ==
    /\ ret' = Returned("load_from_binary", <<>>, load_from_binary(bin))
    /\ UNCHANGED <<poly, fed, r1cs, calls, bin, circ, r1csFile, proofFile, fstat, lastGen>>

NextR1cs ==
    \/ \E value \in Values : R1csAddVariable(value)
    \/ \E l \in LeftLists, r \in RightLists, o \in OutputLists : R1csAddConstraint(l, r, o)
    \/ R1csGenerateWitness
    \/ R1csEvaluateQap
    \/ \E witness \in Candidates(generate_witness(r1cs)) : R1csVerifyWitness(witness)
    \/ R1csSave
    \/ R1csLoad

SpecR1cs == InitR1cs /\ [][NextR1cs]_vars

\* C6: for every constraint system x reachable by add_variable and
\* add_constraint, loading a file that save_to_binary wrote from x succeeds and
\* gives the same variable count, the same (index, value) of every variable, the
\* same constraints and the same QAP left/right/output coefficients as x.
SameSystem(y, x) ==
    /\ Len(y.variables) = Len(x.variables)
    /\ \A k \in 1..Len(x.variables) :
          /\ y.variables[k].index = x.variables[k].index
          /\ y.variables[k].value = x.variables[k].value
    /\ Len(y.constraints) = Len(x.constraints)
    /\ y.constraints = x.constraints
    /\ y.qap.left = x.qap.left
    /\ y.qap.right = x.qap.right
    /\ y.qap.output = x.qap.output

C6_RoundTrip ==
    /\ \A f \in save_to_binary(r1cs) :
          /\ load_from_binary(f).ok
          /\ SameSystem(load_from_binary(f).val, r1cs)
    /\ (OpOf(ret) = "load_from_binary" /\ bin \in save_to_binary(r1cs)) =>
          /\ OutOf(ret) = "ok"
          /\ SameSystem(ValOf(ret), r1cs)

C6_Witness ==
    /\ OpOf(ret) = "load_from_binary"
    /\ bin \in save_to_binary(r1cs)
    /\ Len(r1cs.variables) >= 2
    /\ <<1, 4>> \in r1cs.qap.left
    /\ <<0, 1>> \in r1cs.qap.output

\* the variable indices the constraint system refers to
Referenced(r) ==
    Keys(r.qap.left) \cup Keys(r.qap.right) \cup Keys(r.qap.output)
    \cup UNION {{c.left[k][1].index : k \in 1..Len(c.left)}
                \cup {c.right[k][1].index : k \in 1..Len(c.right)}
                \cup {c.output[k][1].index : k \in 1..Len(c.output)} :
                c \in {r.constraints[j] : j \in 1..Len(r.constraints)}}

\* C9: evaluating the linear combinations of a constraint system, or verifying
\* a witness against it, with an assignment that has no entry for a referenced
\* variable index fails; it returns neither a value nor a boolean.
C9_MissingEntryFails ==
    /\ (OpOf(ret) = "evaluate_qap"
        /\ \E index \in Referenced(r1cs) : index >= Len(generate_witness(r1cs)))
          => OutOf(ret) = "panic"
    /\ (OpOf(ret) = "verify_witness"
        /\ \E index \in Referenced(r1cs) : index >= Len(ArgOf(ret)))
          => OutOf(ret) = "panic"

\* C10: the variable at position i has index i; add_variable returns the
\* previous variable count and appends; no step removes a variable or changes an
\* existing variable's index or value; the variable count and the constraint
\* count never decrease; generate_witness returns the variables' values in index
\* order and leaves the system as it is.
C10_Indexed ==
    \A k \in 1..Len(r1cs.variables) : r1cs.variables[k].index = k - 1

C10_Step ==
    /\ Len(r1cs'.variables) >= Len(r1cs.variables)
    /\ \A k \in 1..Len(r1cs.variables) : r1cs'.variables[k] = r1cs.variables[k]
    /\ Len(r1cs'.constraints) >= Len(r1cs.constraints)
    /\ (OpOf(ret') = "add_variable" /\ r1cs'.variables # r1cs.variables) =>
          /\ ValOf(ret') = Len(r1cs.variables)
          /\ r1cs'.variables =
                Append(r1cs.variables, [index |-> Len(r1cs.variables), value |-> ArgOf(ret')])
    /\ (OpOf(ret') = "generate_witness") =>
          /\ r1cs' = r1cs
          /\ Len(ValOf(ret')) = Len(r1cs.variables)
          /\ \A k \in 1..Len(r1cs.variables) :
                \E v \in {r1cs.variables[j] : j \in 1..Len(r1cs.variables)} :
                    v.index = k - 1 /\ ValOf(ret')[k] = v.value

C10_VariablesStable == [](C10_Indexed) /\ [][C10_Step]_vars

C10_Witness ==
    /\ OpOf(ret) = "generate_witness"
    /\ Len(r1cs.variables) >= 2
    /\ r1cs.variables[1].value # r1cs.variables[2].value
    /\ calls >= 1

(***************************************************************************)
(* Circuits, the two persisted files, and what can happen to the files     *)
(* between a generate_proof and a verify_proof                             *)
(***************************************************************************)
GateSet == {Gate("Add", 0, 1, 2), Gate("Mul", 0, 1, 2)}

Init ==
    /\ PolyFixed
    /\ R1csFixed
    /\ CircuitFixed
    /\ ret = Call("new", <<>>, "ok", <<>>)

AddInput(c, value) ==
    /\ Len(circ[c].inputs) < MaxInputs
    /\ circ' = [circ EXCEPT ![c] = add_input(circ[c], value).circuit]
    /\ ret' = Call("add_input", <<c>>, "ok", add_input(circ[c], value).index)
    /\ UNCHANGED <<poly, fed, r1cs, calls, bin, r1csFile, proofFile, fstat, lastGen>>

AddGate(c, gate) ==
    /\ Len(circ[c].gates) < MaxGates
    /\ circ' = [circ EXCEPT ![c] = add_gate(circ[c], gate)]
    /\ ret' = Call("add_gate", <<c>>, "ok", <<>>)
    /\ UNCHANGED <<poly, fed, r1cs, calls, bin, r1csFile, proofFile, fstat, lastGen>>

SetOutput(c, value) ==
    /\ Len(circ[c].outputs) < MaxOutputs
    /\ circ' = [circ EXCEPT ![c] = set_output(circ[c], value)]
    /\ ret' = Call("set_output", <<c>>, "ok", <<>>)
    /\ UNCHANGED <<poly, fed, r1cs, calls, bin, r1csFile, proofFile, fstat, lastGen>>

GenerateProof(c, path) ==
    \E done \in Circuit_generate_proof(circ[c]) :
        /\ ret' = Call("generate_proof", <<c, path>>, done[1], <<>>)
        /\ IF done[1] = "ok"
           THEN /\ r1csFile' = done[2]
                /\ proofFile' = [proofFile EXCEPT ![path] = done[3]]
                /\ fstat' = [fstat EXCEPT ![R1csPath] = "written", ![path] = "written"]
                /\ lastGen' = <<c, path, circ[c].inputs, circ[c].gates>>
           ELSE UNCHANGED <<r1csFile, proofFile, fstat, lastGen>>
        /\ UNCHANGED <<poly, fed, r1cs, calls, bin, circ>>

VerifyProof(c, path) ==
    /\ ret' = Call("verify_proof", <<c, path>>,
                   BoolOut(verify_proof(circ[c], proofFile[path], r1csFile)), <<>>)
    /\ UNCHANGED <<poly, fed, r1cs, calls, bin, circ, r1csFile, proofFile, fstat, lastGen>>

FileAt(name) == IF name = R1csPath THEN r1csFile ELSE proofFile[name]

WriteFile(name, file, status) ==
    /\ IF name = R1csPath
       THEN r1csFile' = file /\ UNCHANGED proofFile
       ELSE proofFile' = [proofFile EXCEPT ![name] = file] /\ UNCHANGED r1csFile
    /\ fstat' = [fstat EXCEPT ![name] = status]
    /\ UNCHANGED <<poly, fed, r1cs, calls, bin, circ, lastGen>>

\* the file is removed
DeleteFile(name) ==
    /\ FileAt(name).exists
    /\ WriteFile(name, Missing, "absent")
    /\ ret' = Call("delete", <<>>, "ok", <<>>)

\* the file loses its last word, or all of its words
TruncateFile(name, keep) ==
    /\ fstat[name] = "written"
    /\ keep < Len(FileAt(name).bytes)
    /\ WriteFile(name, File(SubSeq(FileAt(name).bytes, 1, keep)), "truncated")
    /\ ret' = Call("truncate", <<>>, "ok", <<>>)

\* one witness entry of a proof file is replaced by another field value
AlterWitnessEntry(path, k, value) ==
    /\ fstat[path] = "written"
    /\ k + 2 <= Len(proofFile[path].bytes)
    /\ FieldNew(value) # FieldNew(proofFile[path].bytes[k + 2])
    /\ WriteFile(path, File([proofFile[path].bytes EXCEPT ![k + 2] = value]), "altered")
    /\ ret' = Call("alter", <<>>, "ok", <<>>)

\* one circuit and one proof path, with the files open to change
Next ==
    \/ \E value \in Values : AddInput(1, value)
    \/ \E gate \in GateSet : AddGate(1, gate)
    \/ \E path \in {"a.bin"} : GenerateProof(1, path)
    \/ \E path \in {"a.bin"} : VerifyProof(1, path)
    \/ \E name \in {"a.bin", R1csPath} : DeleteFile(name)
    \/ \E name \in {"a.bin", R1csPath} :
          \E keep \in {Len(FileAt(name).bytes) - 1} : TruncateFile(name, keep)
    \/ \E path \in {"a.bin"}, k \in 0..(MaxInputs - 1), value \in AlterValues :
          AlterWitnessEntry(path, k, value)

Spec == Init /\ [][Next]_vars

\* the last generate_proof that wrote its files
GenBy == lastGen[1]
GenPath == lastGen[2]
GenInputs == lastGen[3]
GenGates == lastGen[4]

\* the variable indices the gates refer to
GateIndices(gates) ==
    UNION {{gates[k][2], gates[k][3], gates[k][4]} : k \in 1..Len(gates)}

\* the witness a proof file holds, when it can be read
WitnessAt(path) == LoadWitness(proofFile[path]).val

\* C1: after generate_proof lowered at least one gate, if one entry of the
\* witness in the proof file, at an index some gate refers to, is replaced by
\* another field value and nothing else is touched, verify_proof on that path
\* returns false.
C1_TamperDetected ==
    (/\ OpOf(ret) = "verify_proof"
     /\ ArgOf(ret)[2] = GenPath
     /\ Len(GenGates) >= 1
     /\ fstat[R1csPath] = "written"
     /\ fstat[GenPath] = "altered"
     /\ \E k \in GateIndices(GenGates) :
           /\ k < Len(GenInputs)
           /\ WitnessAt(GenPath)[k + 1] # GenInputs[k + 1])
    => OutOf(ret) = "false"

\* each gate's output slot holds the field sum / product of its operand slots
SelfConsistent(inputs, gates) ==
    \A k \in 1..Len(gates) :
        LET a == gates[k][2]
            b == gates[k][3]
            output == gates[k][4]
        IN  /\ a < Len(inputs) /\ b < Len(inputs) /\ output < Len(inputs)
            /\ inputs[output + 1] =
                  IF gates[k][1] = "Add"
                  THEN FieldAdd(inputs[a + 1], inputs[b + 1])
                  ELSE FieldMul(inputs[a + 1], inputs[b + 1])

\* C2: for a circuit with at least one input and self-consistent gates,
\* generate_proof(path) followed by verify_proof(path), with neither file
\* written in between, returns true; and verify_witness(generate_witness()) is
\* true on the constraint system the circuit lowers to.
C2_HonestAccepted ==
    /\ (/\ OpOf(ret) = "verify_proof"
        /\ ArgOf(ret)[2] = GenPath
        /\ fstat[R1csPath] = "written"
        /\ fstat[GenPath] = "written"
        /\ SelfConsistent(GenInputs, GenGates))
       => OutOf(ret) = "true"
    /\ \A c \in Circuits :
          (circ[c].inputs # <<>> /\ SelfConsistent(circ[c].inputs, circ[c].gates))
          => /\ Lower(circ[c]).ok
             /\ BoolOut(verify_witness(Lower(circ[c]).val,
                                       generate_witness(Lower(circ[c]).val))) = "true"

C2_Witness ==
    /\ OpOf(ret) = "verify_proof"
    /\ OutOf(ret) = "true"
    /\ ArgOf(ret)[2] = GenPath
    /\ fstat[R1csPath] = "written"
    /\ fstat[GenPath] = "written"
    /\ GenInputs = <<0, 1, 1>>
    /\ GenGates = <<Gate("Add", 0, 1, 2)>>
    /\ SelfConsistent(GenInputs, GenGates)

\* C3: verify_proof fails exactly when the proof file or the constraint-system
\* file is missing or malformed; when both load it returns true or false.
Unreadable(name) == fstat[name] \in {"absent", "truncated"}

C3_ErrorsAreNotFalse ==
    OpOf(ret) = "verify_proof" =>
        /\ (Unreadable(ArgOf(ret)[2]) \/ Unreadable(R1csPath)) => OutOf(ret) = "panic"
        /\ ~(Unreadable(ArgOf(ret)[2]) \/ Unreadable(R1csPath)) => OutOf(ret) \in {"true", "false"}

C3_Witness ==
    /\ OpOf(ret) = "verify_proof"
    /\ OutOf(ret) = "panic"
    /\ fstat[ArgOf(ret)[2]] = "written"
    /\ fstat[R1csPath] = "truncated"

\* C4: generate_proof on a circuit with no inputs fails, whatever its gates and
\* outputs, and leaves the constraint-system file and the proof files as they
\* were.
C4_Step ==
    (OpOf(ret') = "generate_proof" /\ circ[ArgOf(ret')[1]].inputs = <<>>) =>
        /\ OutOf(ret') = "panic"
        /\ r1csFile' = r1csFile
        /\ proofFile' = proofFile

C4_EmptyCircuitFails == [][C4_Step]_vars

C4_Witness ==
    /\ OpOf(ret) = "generate_proof"
    /\ OutOf(ret) = "panic"
    /\ circ[ArgOf(ret)[1]].inputs = <<>>
    /\ circ[ArgOf(ret)[1]].outputs # <<>>
    /\ r1csFile.exists
    /\ proofFile[ArgOf(ret)[2]].exists

\* C7: after generate_proof on a circuit with n >= 1 inputs and g gates with
\* valid indices, the constraint-system file holds n variables, variable i
\* holding input i, and g Constraint records, the k-th with left, right and
\* output each one term of coefficient one on the k-th gate's first operand,
\* second operand and output.
OneTerm(side, index, inputs) ==
    /\ Len(side) = 1
    /\ side[1][1].index = index
    /\ side[1][1].value = inputs[index + 1]
    /\ side[1][2] = 1

C7_GatesLowered ==
    (OpOf(ret) = "generate_proof" /\ OutOf(ret) = "ok") =>
        LET stored == load_from_binary(r1csFile)
            inputs == circ[ArgOf(ret)[1]].inputs
            gates == circ[ArgOf(ret)[1]].gates
        IN  /\ stored.ok
            /\ Len(stored.val.variables) = Len(inputs)
            /\ \A i \in 1..Len(inputs) :
                  stored.val.variables[i] = [index |-> i - 1, value |-> inputs[i]]
            /\ Len(stored.val.constraints) = Len(gates)
            /\ \A k \in 1..Len(gates) :
                  /\ OneTerm(stored.val.constraints[k].left, gates[k][2], inputs)
                  /\ OneTerm(stored.val.constraints[k].right, gates[k][3], inputs)
                  /\ OneTerm(stored.val.constraints[k].output, gates[k][4], inputs)

(***************************************************************************)
(* Two circuits sharing the constraint-system file and the proof paths     *)
(***************************************************************************)
SharedGates == {Gate("Add", 0, 0, 1)}

NextShared ==
    \/ \E c \in Circuits, value \in {1} : AddInput(c, value)
    \/ \E c \in Circuits, gate \in SharedGates : AddGate(c, gate)
    \/ \E c \in {2}, value \in {1} : SetOutput(c, value)
    \/ \E c \in Circuits, path \in Paths : GenerateProof(c, path)
    \/ \E c \in Circuits, path \in Paths : VerifyProof(c, path)

SpecShared == Init /\ [][NextShared]_vars

\* the circuit of the last generate_proof that wrote its files
GenCircuit == [inputs |-> GenInputs, gates |-> GenGates, outputs |-> <<>>]

\* C8: what verify_proof(path) returns is decided by the proof file at path and
\* the constraint-system file alone: every Circuit instance gets the same
\* result, and the witness at path is checked against the constraint system of
\* whichever circuit generated last, not against the caller's.
C8_FilesDecide ==
    OpOf(ret) = "verify_proof" =>
        /\ \A c \in Circuits :
              OutOf(ret) = BoolOut(verify_proof(circ[c], proofFile[ArgOf(ret)[2]], r1csFile))
        /\ (fstat[R1csPath] = "written" /\ fstat[ArgOf(ret)[2]] = "written") =>
              /\ load_from_binary(r1csFile).val = Lower(GenCircuit).val
              /\ OutOf(ret) =
                    BoolOut(verify_witness(Lower(GenCircuit).val, WitnessAt(ArgOf(ret)[2])))

C8_Witness ==
    /\ OpOf(ret) = "verify_proof"
    /\ OutOf(ret) = "true"
    /\ GenBy # 0
    /\ GenBy # ArgOf(ret)[1]
    /\ GenPath # ArgOf(ret)[2]
    /\ fstat[ArgOf(ret)[2]] = "written"
    /\ Len(WitnessAt(ArgOf(ret)[2])) # Len(GenInputs)
    /\ Len(circ[1].inputs) # Len(circ[2].inputs)
    /\ circ[1].gates # circ[2].gates
    /\ circ[1].outputs # circ[2].outputs

====
